---- MODULE Spec2Model ----
(***************************************************************************)
(* pyxdis/main.py: selection of the opcode table for a bytecode version    *)
(* (get_opcode), the entry point disco and the queue-driven walk over the  *)
(* nested code objects (disco_loop).                                       *)
(*                                                                         *)
(* A version x.y is written as the integer 10*x + y (2.7 is 27).  A code   *)
(* object is an identifier in CodeIds; every other value of an operand or  *)
(* of the argument co is the scalar 0.  Text written to a stream is a      *)
(* sequence of tokens, one per piece of text the code writes.              *)
(***************************************************************************)
EXTENDS Integers, Sequences, FiniteSets, TLC

\* Bounds of the model.
NumCode == 3
MaxTotalInstrs == 3
MaxPad == 10
MaxChunks == 3

\* A visit is a path of references from the root, and a path through code
\* objects that refer only to code objects built before them is a set of
\* instructions: no walk of a program within the bounds has more visits.
MaxVisits == 2 ^ MaxTotalInstrs

\* The arguments and globals of a call of disco, its locals and the streams;
\* hist is a history variable: for each entry of queue and of visited, how
\* deep below the root the occurrence lies and which visit appended it.
\* peer is a second call of disco running in the same process, dec a run of
\* the instruction decoder.
VARIABLES version, timestamp, co, out, IS_PYPY, debug, code,
          pc, error, opc, real_out, queue, streams, visited, hist,
          peer, dec

vars == <<version, timestamp, co, out, IS_PYPY, debug, code,
          pc, error, opc, real_out, queue, streams, visited, hist,
          peer, dec>>

CodeIds == 1..NumCode

\* pyxdis.code.iscode: is the value a code object.
iscode(x) == x \in CodeIds

----------------------------------------------------------------------------
\* Text

Tok(kind, arg) == [kind |-> kind, arg |-> arg]

\* '# Python bytecode %s (disassembled from Python %s)\n'
BytecodeLine(v) == Tok("bytecode", v)

\* '# Timestamp in code: %Y-%m-%d %H:%M:%S\n'
TimestampLine(ts) == Tok("timestamp", ts)

\* format_code_info(co, version) + "\n"
CodeInfo(c) == Tok("info", c)

\* the "\n" that starts the write of line 98
Blank == Tok("blank", 0)

\* bytecode.dis() + "\n"
DisText(c) == Tok("dis", c)

\* stream.write(text)
Write(s, stream, text) == [s EXCEPT ![stream] = @ \o text]

----------------------------------------------------------------------------
\* get_opcode

\* The lookup with the two branches of 2.7 exchanged.
get_opcode_swapped_pypy(v) ==
  IF v = 23 THEN "opcode_23"
  ELSE IF v = 24 THEN "opcode_24"
  ELSE IF v = 25 THEN "opcode_25"
  ELSE IF v = 26 THEN (IF IS_PYPY THEN "opcode_pypy26" ELSE "opcode_26")
  ELSE IF v = 27 THEN (IF IS_PYPY THEN "opcode_27" ELSE "opcode_pypy27")
  ELSE IF v = 30 THEN "opcode_30"
  ELSE IF v = 31 THEN "opcode_31"
  ELSE IF v = 32 THEN "opcode_32"
  ELSE IF v = 33 THEN "opcode_33"
  ELSE IF v = 34 THEN "opcode_34"
  ELSE IF v = 35 THEN "opcode_35"
  ELSE "TypeError"

\* The table for a version, or "TypeError" when the function raises.
get_opcode(v) ==
  IF v = 23 THEN "opcode_23"
  ELSE IF v = 24 THEN "opcode_24"
  ELSE IF v = 25 THEN "opcode_25"
  ELSE IF v = 26 THEN (IF IS_PYPY THEN "opcode_pypy26" ELSE "opcode_26")
  ELSE IF v = 27 THEN (IF IS_PYPY THEN "opcode_pypy27" ELSE "opcode_27")
  ELSE IF v = 30 THEN "opcode_30"
  ELSE IF v = 31 THEN "opcode_31"
  ELSE IF v = 32 THEN "opcode_32"
  ELSE IF v = 33 THEN "opcode_33"
  ELSE IF v = 34 THEN "opcode_34"
  ELSE IF v = 35 THEN "opcode_35"
  ELSE "TypeError"

----------------------------------------------------------------------------
\* Inputs

Versions == {22, 23, 24, 25, 26, 27, 30, 31, 32, 33, 34, 35, 36, 99}
Timestamps == {-1, 0, 1}
OutArgs == {"stdout", "sink", "falsy_sink", "None"}
CoNames == {"<module>", "f"}
Filenames == {"", "a.py"}

SeqsUpTo(S, n) == UNION {[1..k -> S] : k \in 0..n}

\* Code objects are immutable and built after their constants, so a code
\* object refers only to code objects built before it: here, to higher ids.
Operands(c) == {0} \cup {d \in CodeIds : d > c}

\* The instruction operands of the code objects c..NumCode, at most b
\* instructions in all.
RECURSIVE Structs(_, _)
Structs(c, b) ==
  IF c > NumCode THEN {<<>>}
  ELSE UNION {{<<s>> \o rest : rest \in Structs(c + 1, b - Len(s))} :
              s \in SeqsUpTo(Operands(c), b)}

\* Does a code object of the program p refer to d.
Referenced(p, d) ==
  \E c \in CodeIds : \E i \in 1..Len(p[c].instrs) : p[c].instrs[i] = d

\* An identifier that is neither the root nor referred to stands for no code
\* object of the program: it is given one fixed value.
WellFormed(p) ==
  \A d \in CodeIds :
    ~(d = 1 \/ Referenced(p, d))
       => p[d].instrs = <<>> /\ p[d].co_name = "f" /\ p[d].decodes

\* The programs of at most b instructions: the code objects of one file (one
\* co_filename), at most one of which the decoder rejects.
Programs(b) ==
  {p \in {[c \in CodeIds |-> [co_name |-> nm[c], co_filename |-> fn,
                              instrs |-> st[c], decodes |-> c # bad]] :
             st \in Structs(1, b), nm \in [CodeIds -> CoNames],
             fn \in Filenames, bad \in 0..NumCode} : WellFormed(p)}

\* No second call, no run of the decoder.
PeerIdle ==
  [pc |-> "idle", version |-> 0, timestamp |-> 0, co |-> 0, out |-> "None",
   error |-> "none", opc |-> "none", real_out |-> "none", queue |-> <<>>,
   visited |-> <<>>]
DecIdle ==
  [pc |-> "idle", buf |-> <<>>, offset |-> 0, ext |-> <<>>, instrs |-> <<>>,
   error |-> "none"]

InitWith(vs, pypys, tss, outs, cos, debugs, progs) ==
  /\ version \in vs
  /\ IS_PYPY \in pypys
  /\ debug \in debugs
  /\ timestamp \in tss
  /\ out \in outs
  /\ co \in cos
  /\ code \in progs
  /\ pc = "disco"
  /\ error = "none"
  /\ opc = "none"
  /\ real_out = "none"
  /\ queue = <<>>
  /\ streams = [s \in {"sink", "stdout", "peer_sink"} |-> <<>>]
  /\ visited = <<>>
  /\ hist = [q |-> <<>>, v |-> <<>>]

\* Every argument of disco with a program of one code object, and every
\* program within the bounds with the arguments of a supported version and
\* an output stream of its own.
Init ==
  /\ \/ InitWith(Versions, BOOLEAN, Timestamps, OutArgs, {0, 1}, BOOLEAN,
                 Programs(0))
     \/ InitWith({27}, {FALSE}, {0, 1}, {"sink", "falsy_sink"}, {1}, {TRUE},
                 Programs(MaxTotalInstrs))
  /\ peer = PeerIdle
  /\ dec = DecIdle

----------------------------------------------------------------------------
\* disco

\* The stream an argument out writes to.
StreamOf(o) == IF o = "sink" \/ o = "falsy_sink" THEN "sink" ELSE "stdout"

\* real_out = out or sys.stdout
RealOut(o) == IF o = "None" \/ o = "falsy_sink" THEN "stdout" ELSE StreamOf(o)

\* The lines about the program with a timestamp line for every timestamp
\* but 0.
ProgramHeader_nonzero ==
  <<BytecodeLine(version)>>
  \o (IF timestamp # 0 THEN <<TimestampLine(timestamp)>> ELSE <<>>)

\* Lines 78-83: the lines about the program.
ProgramHeader ==
  <<BytecodeLine(version)>>
  \o (IF timestamp > 0 THEN <<TimestampLine(timestamp)>> ELSE <<>>)

\* Lines 85-86: the header of co, when it has a file name.
RootHeader ==
  IF code[co].co_filename # "" THEN <<CodeInfo(co)>> ELSE <<>>

Fail(e) == pc' = "failed" /\ error' = e

\* Lines 69-91 up to the call of disco_loop.  The assert of line 74 is
\* not executed when the interpreter runs without __debug__; co.co_filename
\* of line 85 then raises for a value that is no code object.
disco ==
  /\ pc = "disco"
  /\ UNCHANGED <<version, timestamp, co, out, IS_PYPY, debug, code, visited,
                 peer, dec>>
  /\ IF debug /\ ~iscode(co)
     THEN /\ Fail("AssertionError")
          /\ UNCHANGED <<opc, real_out, queue, streams, hist>>
     ELSE /\ real_out' = RealOut(out)
          /\ IF out = "None"
             THEN /\ Fail("AttributeError")
                  /\ UNCHANGED <<opc, queue, streams, hist>>
             ELSE IF ~iscode(co)
             THEN /\ streams' = Write(streams, StreamOf(out), ProgramHeader)
                  /\ Fail("AttributeError")
                  /\ UNCHANGED <<opc, queue, hist>>
             ELSE /\ streams' = Write(streams, StreamOf(out),
                                      ProgramHeader \o RootHeader)
                  /\ IF get_opcode(version) = "TypeError"
                     THEN /\ Fail("TypeError")
                          /\ UNCHANGED <<opc, queue, hist>>
                     ELSE /\ opc' = get_opcode(version)
                          /\ queue' = <<co>>
                          /\ hist' = [q |-> <<[depth |-> 0, parent |-> 0]>>,
                                      v |-> <<>>]
                          /\ pc' = "disco_loop"
                          /\ UNCHANGED error

----------------------------------------------------------------------------
\* disco_loop

\* Line 97-98: the header of a code object that is not named '<module>'.
Header(c) ==
  IF code[c].co_name # "<module>" THEN <<Blank, CodeInfo(c)>> ELSE <<>>

\* Every operand, code object or not.
AllOperands(c) == code[c].instrs

\* Each code object once, at its first occurrence.
CodeOperandsOnce(c) ==
  LET ops == code[c].instrs
      Keep(i) == iscode(ops[i]) /\ \A j \in 1..(i - 1) : ops[j] # ops[i]
      F[i \in 0..Len(ops)] ==
        IF i = 0 THEN <<>>
        ELSE IF Keep(i) THEN Append(F[i - 1], ops[i]) ELSE F[i - 1]
  IN F[Len(ops)]

\* Lines 103-105: the operands that are code objects, as they occur.
CodeOperands(c) == SelectSeq(code[c].instrs, iscode)

Reverse(s) == [i \in 1..Len(s) |-> s[Len(s) + 1 - i]]

\* The queue after an appendleft of each item.
appendleft_each(q, items) == Reverse(items) \o q

\* Lines 103-105: the queue after queue.append of each item in turn.
append_each(q, items) == q \o items

\* The history of the occurrences appended by the visit of c, the n-th
\* visit, an occurrence at depth d.
Appended(c, n, d) ==
  [i \in 1..Len(CodeOperands(c)) |-> [depth |-> d + 1, parent |-> n]]

\* The queue after a popleft that leaves the object in the queue.
popleft_keeps(q) == q

\* Line 96: the queue after queue.popleft().
popleft(q) == Tail(q)

\* The decoder's verdict on a code object: Bytecode(co, opc) and its dis()
\* either give the listing or raise (unknown opcode, operand out of range,
\* truncated instruction).
Decodes(c) == code[c].decodes

\* A turn that goes on with the next code object when the decoder raises.
disco_loop_body_swallows ==
  /\ pc = "disco_loop"
  /\ Len(queue) > 0
  /\ Len(visited) < MaxVisits
  /\ UNCHANGED <<version, timestamp, co, out, IS_PYPY, debug, code, opc,
                 real_out, peer, dec>>
  /\ LET c == Head(queue)
         h == Head(hist.q)
     IN /\ visited' = Append(visited, c)
        /\ IF ~Decodes(c)
           THEN /\ streams' = Write(streams, real_out, Header(c))
                /\ queue' = popleft(queue)
                /\ hist' = [q |-> popleft(hist.q), v |-> Append(hist.v, h)]
                /\ UNCHANGED <<pc, error>>
           ELSE /\ streams' = Write(streams, real_out,
                                    Header(c) \o <<DisText(c)>>)
                /\ queue' = append_each(popleft(queue), CodeOperands(c))
                /\ hist' = [q |-> append_each(popleft(hist.q),
                                              Appended(c, Len(visited) + 1,
                                                       h.depth)),
                            v |-> Append(hist.v, h)]
                /\ UNCHANGED <<pc, error>>

\* A turn that empties the instructions of the code object it has scanned.
disco_loop_body_consumes ==
  /\ pc = "disco_loop"
  /\ Len(queue) > 0
  /\ Len(visited) < MaxVisits
  /\ UNCHANGED <<version, timestamp, co, out, IS_PYPY, debug, opc, real_out,
                 peer, dec>>
  /\ LET c == Head(queue)
         h == Head(hist.q)
     IN /\ visited' = Append(visited, c)
        /\ IF ~Decodes(c)
           THEN /\ streams' = Write(streams, real_out, Header(c))
                /\ queue' = popleft(queue)
                /\ hist' = [q |-> popleft(hist.q), v |-> Append(hist.v, h)]
                /\ code' = code
                /\ Fail("DecodeError")
           ELSE /\ streams' = Write(streams, real_out,
                                    Header(c) \o <<DisText(c)>>)
                /\ queue' = append_each(popleft(queue), CodeOperands(c))
                /\ hist' = [q |-> append_each(popleft(hist.q),
                                              Appended(c, Len(visited) + 1,
                                                       h.depth)),
                            v |-> Append(hist.v, h)]
                /\ code' = [code EXCEPT ![c].instrs = <<>>]
                /\ UNCHANGED <<pc, error>>

\* Lines 95-106, one turn of the while loop: take the next code object,
\* write its header and its listing, append the code objects its
\* instructions refer to.  The decoder raises before line 101 writes.
disco_loop_body ==
  /\ pc = "disco_loop"
  /\ Len(queue) > 0
  /\ Len(visited) < MaxVisits
  /\ UNCHANGED <<version, timestamp, co, out, IS_PYPY, debug, code, opc,
                 real_out, peer, dec>>
  /\ LET c == Head(queue)
         h == Head(hist.q)
     IN /\ visited' = Append(visited, c)
        /\ IF ~Decodes(c)
           THEN /\ streams' = Write(streams, real_out, Header(c))
                /\ queue' = popleft(queue)
                /\ hist' = [q |-> popleft(hist.q), v |-> Append(hist.v, h)]
                /\ Fail("DecodeError")
           ELSE /\ streams' = Write(streams, real_out,
                                    Header(c) \o <<DisText(c)>>)
                /\ queue' = append_each(popleft(queue), CodeOperands(c))
                /\ hist' = [q |-> append_each(popleft(hist.q),
                                              Appended(c, Len(visited) + 1,
                                                       h.depth)),
                            v |-> Append(hist.v, h)]
                /\ UNCHANGED <<pc, error>>

\* The queue is empty: the loop and disco return.
disco_loop_exit ==
  /\ pc = "disco_loop"
  /\ Len(queue) = 0
  /\ pc' = "done"
  /\ UNCHANGED <<version, timestamp, co, out, IS_PYPY, debug, code, error, opc,
                 real_out, queue, streams, visited, hist, peer, dec>>

Next == disco \/ disco_loop_body \/ disco_loop_exit

----------------------------------------------------------------------------
\* A second call of disco in the same process (another thread of the host):
\* the same code with its own arguments and locals, held in peer.  The two
\* calls share the code objects, the globals and sys.stdout.

\* The stream the second call's argument out writes to.
PeerStreamOf(o) ==
  IF o = "sink" \/ o = "falsy_sink" THEN "peer_sink" ELSE "stdout"

\* real_out = out or sys.stdout
PeerRealOut(o) ==
  IF o = "None" \/ o = "falsy_sink" THEN "stdout" ELSE PeerStreamOf(o)

\* Lines 78-83
PeerProgramHeader ==
  <<BytecodeLine(peer.version)>>
  \o (IF peer.timestamp > 0 THEN <<TimestampLine(peer.timestamp)>> ELSE <<>>)

\* Lines 85-86
PeerRootHeader ==
  IF code[peer.co].co_filename # "" THEN <<CodeInfo(peer.co)>> ELSE <<>>

SessionVars ==
  <<version, timestamp, co, out, IS_PYPY, debug, code, pc, error, opc,
    real_out, queue, visited, hist, dec>>

\* Lines 69-91 up to the call of disco_loop.
peer_disco ==
  /\ peer.pc = "disco"
  /\ UNCHANGED SessionVars
  /\ IF debug /\ ~iscode(peer.co)
     THEN /\ peer' = [peer EXCEPT !.pc = "failed", !.error = "AssertionError"]
          /\ UNCHANGED streams
     ELSE IF peer.out = "None"
     THEN /\ peer' = [peer EXCEPT !.pc = "failed", !.error = "AttributeError",
                                  !.real_out = PeerRealOut(peer.out)]
          /\ UNCHANGED streams
     ELSE IF ~iscode(peer.co)
     THEN /\ streams' = Write(streams, PeerStreamOf(peer.out),
                              PeerProgramHeader)
          /\ peer' = [peer EXCEPT !.pc = "failed", !.error = "AttributeError",
                                  !.real_out = PeerRealOut(peer.out)]
     ELSE /\ streams' = Write(streams, PeerStreamOf(peer.out),
                              PeerProgramHeader \o PeerRootHeader)
          /\ IF get_opcode(peer.version) = "TypeError"
             THEN peer' = [peer EXCEPT !.pc = "failed", !.error = "TypeError",
                                       !.real_out = PeerRealOut(peer.out)]
             ELSE peer' = [peer EXCEPT !.pc = "disco_loop",
                                       !.real_out = PeerRealOut(peer.out),
                                       !.opc = get_opcode(peer.version),
                                       !.queue = <<peer.co>>]

\* A turn of the second call that appends to the first call's queue: one
\* queue for the process instead of one for each call.
peer_disco_loop_body_shared_queue ==
  /\ peer.pc = "disco_loop"
  /\ Len(peer.queue) > 0
  /\ Len(peer.visited) < MaxVisits
  /\ UNCHANGED <<version, timestamp, co, out, IS_PYPY, debug, code, pc, error,
                 opc, real_out, visited, dec>>
  /\ LET c == Head(peer.queue)
     IN IF ~Decodes(c)
        THEN /\ streams' = Write(streams, peer.real_out, Header(c))
             /\ peer' = [peer EXCEPT !.pc = "failed", !.error = "DecodeError",
                                     !.queue = popleft(@),
                                     !.visited = Append(@, c)]
             /\ UNCHANGED <<queue, hist>>
        ELSE /\ streams' = Write(streams, peer.real_out,
                                 Header(c) \o <<DisText(c)>>)
             /\ peer' = [peer EXCEPT !.queue = popleft(@),
                                     !.visited = Append(@, c)]
             /\ queue' = append_each(queue, CodeOperands(c))
             /\ hist' = [hist EXCEPT !.q = append_each(@, Appended(c, 0, 0))]

\* Lines 95-106, one turn of the while loop.
peer_disco_loop_body ==
  /\ peer.pc = "disco_loop"
  /\ Len(peer.queue) > 0
  /\ Len(peer.visited) < MaxVisits
  /\ UNCHANGED SessionVars
  /\ LET c == Head(peer.queue)
     IN IF ~Decodes(c)
        THEN /\ streams' = Write(streams, peer.real_out, Header(c))
             /\ peer' = [peer EXCEPT !.pc = "failed", !.error = "DecodeError",
                                     !.queue = popleft(@),
                                     !.visited = Append(@, c)]
        ELSE /\ streams' = Write(streams, peer.real_out,
                                 Header(c) \o <<DisText(c)>>)
             /\ peer' = [peer EXCEPT
                           !.queue = append_each(popleft(@), CodeOperands(c)),
                           !.visited = Append(@, c)]

\* The queue is empty: the loop and disco return.
peer_disco_loop_exit ==
  /\ peer.pc = "disco_loop"
  /\ Len(peer.queue) = 0
  /\ peer' = [peer EXCEPT !.pc = "done"]
  /\ UNCHANGED SessionVars
  /\ UNCHANGED streams

\* The code objects of two programs, with the roots 1 and 2: a program may
\* refer to code objects of the other.
TwoRoots(p) ==
  \A d \in CodeIds :
    ~(d = 1 \/ d = 2 \/ Referenced(p, d))
       => p[d].instrs = <<>> /\ p[d].co_name = "f" /\ p[d].decodes

Heaps(b) ==
  {p \in {[c \in CodeIds |-> [co_name |-> nm[c], co_filename |-> fn,
                              instrs |-> st[c], decodes |-> c # bad]] :
             st \in Structs(1, b), nm \in [CodeIds -> CoNames],
             fn \in Filenames, bad \in 0..NumCode} : TwoRoots(p)}

\* Two calls, each with its own root, timestamp and output stream.
ConcInit ==
  /\ InitWith({27}, {FALSE}, {0}, {"sink", "falsy_sink"}, {1}, {TRUE},
              Heaps(MaxTotalInstrs - 1))
  /\ \E o \in {"sink", "falsy_sink"} :
       peer = [PeerIdle EXCEPT !.pc = "disco", !.version = 35,
                               !.timestamp = 1, !.co = 2, !.out = o]
  /\ dec = DecIdle

ConcNext ==
  \/ disco \/ disco_loop_body \/ disco_loop_exit
  \/ peer_disco \/ peer_disco_loop_body \/ peer_disco_loop_exit

\* The steps of the two calls interleave in any order.
ConcSpec == ConcInit /\ [][ConcNext]_vars

Spec == Init /\ [][Next]_vars

FairSpec == Spec /\ WF_vars(Next)

----------------------------------------------------------------------------
\* The instruction decoder, decode(table, code), that Bytecode stands for.
\* A run is held in dec: the bytes of the code object, the offset of the
\* next byte, the pending extended argument, the instructions decoded so
\* far.  An operand can exceed 32 bits, so a number is kept as the sequence
\* of its base-2^16 digits, the most significant first, 0 being <<>>.

\* Width in bytes of an argument and in bits of the extended-argument shift,
\* as fields of the table.
ArgWidth == 2
ExtShift == 16
Limb == 2 ^ ExtShift

\* The table of the revision under test: NOP, LOAD_CONST, JUMP_FORWARD,
\* JUMP_ABSOLUTE, CALL_FUNCTION, EXTENDED_ARG.
OpcodeTable ==
  [op \in {9, 100, 110, 113, 131, 144} |->
     CASE op = 9 -> [mnemonic |-> "NOP", hasArgument |-> FALSE,
                     operandKind |-> "None"]
       [] op = 100 -> [mnemonic |-> "LOAD_CONST", hasArgument |-> TRUE,
                       operandKind |-> "Constant"]
       [] op = 110 -> [mnemonic |-> "JUMP_FORWARD", hasArgument |-> TRUE,
                       operandKind |-> "RelativeJump"]
       [] op = 113 -> [mnemonic |-> "JUMP_ABSOLUTE", hasArgument |-> TRUE,
                       operandKind |-> "AbsoluteJump"]
       [] op = 131 -> [mnemonic |-> "CALL_FUNCTION", hasArgument |-> TRUE,
                       operandKind |-> "RawInt"]
       [] op = 144 -> [mnemonic |-> "EXTENDED_ARG", hasArgument |-> TRUE,
                       operandKind |-> "RawInt"]]

\* The constants of the code object under test.
Constants == <<7, 8>>

RECURSIVE Norm(_)
Norm(d) == IF d # <<>> /\ Head(d) = 0 THEN Norm(Tail(d)) ELSE d

\* d + n for a number n < 2^16
RECURSIVE AddSmall(_, _)
AddSmall(d, n) ==
  IF n = 0 THEN d
  ELSE IF d = <<>> THEN <<n>>
  ELSE LET last == d[Len(d)] + n
           front == SubSeq(d, 1, Len(d) - 1)
       IN AddSmall(front, last \div Limb) \o <<last % Limb>>

\* d << ExtShift
ShiftLeft(d) == IF d = <<>> THEN <<>> ELSE d \o <<0>>

\* The little-endian argument in the bytes after the opcode at offset o.
RECURSIVE ArgBytes(_, _, _)
ArgBytes(buf, o, w) ==
  IF w = 0 THEN 0 ELSE buf[o + 2] + 256 * ArgBytes(buf, o + 1, w - 1)

\* Step 4: the argument combined with the pending extended argument, whose
\* low digit is 0.
Combined(ext, arg) == Norm(AddSmall(ext, arg))

\* The target counted from the offset of the jump itself.
RelativeTarget_from_start(raw, offset, next) == AddSmall(raw, offset)

\* Step 5, RelativeJump: the offset right after the instruction plus the
\* operand.
RelativeTarget(raw, offset, next) == AddSmall(raw, next)

\* The pending extended argument kept across an instruction that is no
\* extended argument.
ExtAfter_kept(def, raw, ext) ==
  IF def.mnemonic = "EXTENDED_ARG" THEN ShiftLeft(raw) ELSE ext

\* Step 4: an extended-argument opcode shifts its operand into the
\* accumulator; after any other opcode the accumulator is 0 again.
ExtAfter(def, raw, ext) ==
  IF def.mnemonic = "EXTENDED_ARG" THEN ShiftLeft(raw) ELSE <<>>

DecodeFails(d, e) == [d EXCEPT !.pc = "failed", !.error = e]

\* A truncated operand ends the run as if the buffer were exhausted.
Truncated_dropped(d) == [d EXCEPT !.pc = "done"]

\* The buffer ends inside the operand.
Truncated(d) == DecodeFails(d, "TruncatedInstructionError")

\* Step 5: the resolved operand by operandKind.  A Constant index out of
\* range gives <<Limb>>, which is the digit sequence of no number.
Resolved(def, raw, offset, next) ==
  CASE def.operandKind = "Constant" ->
         IF Len(raw) = 0 THEN <<Constants[1]>>
         ELSE IF Len(raw) = 1 /\ raw[1] < Len(Constants)
              THEN <<Constants[raw[1] + 1]>>
              ELSE <<Limb>>
    [] def.operandKind = "RelativeJump" -> RelativeTarget(raw, offset, next)
    [] def.operandKind = "AbsoluteJump" -> raw
    [] OTHER -> <<>>

\* Steps 2-6 for the opcode at d.offset.
DecodeOne(d) ==
  LET op == d.buf[d.offset + 1]
  IN IF op \notin DOMAIN OpcodeTable
     THEN DecodeFails(d, "UnknownOpcodeError")
     ELSE LET def == OpcodeTable[op] IN
       IF ~def.hasArgument
       THEN [d EXCEPT
              !.instrs = Append(@, [offset |-> d.offset,
                                    mnemonic |-> def.mnemonic,
                                    hasRaw |-> FALSE, raw |-> <<>>,
                                    hasResolved |-> FALSE, resolved |-> <<>>]),
              !.offset = d.offset + 1,
              !.ext = ExtAfter(def, <<>>, d.ext)]
       ELSE IF d.offset + 1 + ArgWidth > Len(d.buf)
       THEN Truncated(d)
       ELSE LET raw == Combined(d.ext, ArgBytes(d.buf, d.offset, ArgWidth))
                next == d.offset + 1 + ArgWidth
                res == Resolved(def, raw, d.offset, next)
            IN IF res = <<Limb>>
               THEN DecodeFails(d, "OperandResolutionError")
               ELSE [d EXCEPT
                      !.instrs = Append(@, [offset |-> d.offset,
                                            mnemonic |-> def.mnemonic,
                                            hasRaw |-> TRUE, raw |-> raw,
                                            hasResolved |->
                                              def.operandKind # "RawInt",
                                            resolved |-> res]),
                      !.offset = next,
                      !.ext = ExtAfter(def, raw, d.ext)]

\* One instruction is decoded, or the run fails.
decode_step ==
  /\ dec.pc = "decode"
  /\ dec.offset < Len(dec.buf)
  /\ dec' = DecodeOne(dec)
  /\ UNCHANGED <<version, timestamp, co, out, IS_PYPY, debug, code, pc, error,
                 opc, real_out, queue, streams, visited, hist, peer>>

\* Step 6: the buffer is exhausted.
decode_end ==
  /\ dec.pc = "decode"
  /\ dec.offset >= Len(dec.buf)
  /\ dec' = [dec EXCEPT !.pc = "done"]
  /\ UNCHANGED <<version, timestamp, co, out, IS_PYPY, debug, code, pc, error,
                 opc, real_out, queue, streams, visited, hist, peer>>

\* Encoded instructions and pieces of them: NOP, LOAD_CONST 0 and 2,
\* JUMP_FORWARD 5, JUMP_ABSOLUTE 4, CALL_FUNCTION 3, EXTENDED_ARG 1 and 2, a
\* byte that is no opcode, an opcode without its operand.
Chunks ==
  {<<9>>, <<100, 0, 0>>, <<100, 2, 0>>, <<110, 5, 0>>, <<113, 4, 0>>,
   <<131, 3, 0>>, <<144, 1, 0>>, <<144, 2, 0>>, <<255>>, <<100>>}

RECURSIVE Flatten(_)
Flatten(ss) == IF ss = <<>> THEN <<>> ELSE Head(ss) \o Flatten(Tail(ss))

\* The byte buffers: some NOPs, then a few chunks.
Buffers ==
  {[i \in 1..k |-> 9] \o Flatten(cs) :
     k \in 0..MaxPad, cs \in SeqsUpTo(Chunks, MaxChunks)}

\* A run of the decoder on a buffer, outside any call of disco.
DecInit ==
  /\ InitWith({27}, {FALSE}, {0}, {"sink"}, {1}, {TRUE},
              {CHOOSE p \in Programs(0) : TRUE})
  /\ peer = PeerIdle
  /\ \E b \in Buffers : dec = [DecIdle EXCEPT !.pc = "decode", !.buf = b]

DecNext == decode_step \/ decode_end

DecSpec == DecInit /\ [][DecNext]_vars

----------------------------------------------------------------------------
\* Helpers of the properties

IsPrefix(s, t) == Len(s) <= Len(t) /\ SubSeq(t, 1, Len(s)) = s

IsSuffix(s, t) ==
  Len(s) <= Len(t) /\ SubSeq(t, Len(t) - Len(s) + 1, Len(t)) = s

Count(s, x) == Cardinality({i \in 1..Len(s) : s[i] = x})

\* The text a stream holds.
Sink == streams[StreamOf(out)]

\* The code objects the instructions of c refer to, one per instruction
\* that refers to one, in the order of the instructions.
RECURSIVE RefsFrom(_, _)
RefsFrom(c, i) ==
  IF i > Len(code[c].instrs) THEN <<>>
  ELSE IF code[c].instrs[i] \in CodeIds
       THEN <<code[c].instrs[i]>> \o RefsFrom(c, i + 1)
       ELSE RefsFrom(c, i + 1)

\* The references of the visits of one generation, parent by parent.
RECURSIVE RefsOfAll(_)
RefsOfAll(level) ==
  IF level = <<>> THEN <<>>
  ELSE RefsFrom(Head(level), 1) \o RefsOfAll(Tail(level))

\* One visit per occurrence: the root, then generation after generation.
RECURSIVE VisitsFrom(_)
VisitsFrom(level) ==
  IF level = <<>> THEN <<>> ELSE level \o VisitsFrom(RefsOfAll(level))

----------------------------------------------------------------------------
\* C1: the walk visits the root once and then one code object per
\* instruction that refers to one, with no deduplication, the visits caused
\* by one parent in the order of its instructions: what has been visited is
\* always a start of that list of occurrences, and all of it on completion.
C1_OneVisitPerOccurrence ==
  pc \in {"disco_loop", "done", "failed"} /\ iscode(co) =>
    /\ IsPrefix(visited, VisitsFrom(<<co>>))
    /\ pc = "done" => visited = VisitsFrom(<<co>>)

\* A completed walk of a root that refers once to one code object and twice
\* to another.
C1_Witness ==
  /\ pc = "done"
  /\ \E d, e \in CodeIds :
       /\ d # e
       /\ Count(code[co].instrs, d) = 1 /\ Count(code[co].instrs, e) = 2
       /\ Count(visited, co) = 1 /\ Count(visited, d) = 1
       /\ Count(visited, e) = 2

\* C2: when get_opcode rejects the version, nothing has been written to
\* the output stream at the moment the error is raised.
C2_NoOutputBeforeUnsupported ==
  error = "TypeError" => streams["sink"] = <<>> /\ streams["stdout"] = <<>>

\* The pairs (version, alternate runtime) for which a table exists.
RegisteredPairs ==
  {<<v, FALSE>> : v \in {23, 24, 25, 26, 27, 30, 31, 32, 33, 34, 35}}
    \cup {<<26, TRUE>>, <<27, TRUE>>}

\* disco has come to its call of get_opcode.
LookedUp == pc # "disco" /\ iscode(co) /\ out # "None"

\* C3: the lookup is an exact match on (version, alternate runtime): for a
\* pair without a table it raises instead of returning another table.
C3_ExactMatchOnly ==
  LookedUp /\ <<version, IS_PYPY>> \notin RegisteredPairs
    => error = "TypeError" /\ opc = "none"

\* The table of each supported version.
OwnTable(v, pypy) ==
  CASE v = 23 -> "opcode_23"
    [] v = 24 -> "opcode_24"
    [] v = 25 -> "opcode_25"
    [] v = 26 /\ pypy -> "opcode_pypy26"
    [] v = 26 /\ ~pypy -> "opcode_26"
    [] v = 27 /\ pypy -> "opcode_pypy27"
    [] v = 27 /\ ~pypy -> "opcode_27"
    [] v = 30 -> "opcode_30"
    [] v = 31 -> "opcode_31"
    [] v = 32 -> "opcode_32"
    [] v = 33 -> "opcode_33"
    [] v = 34 -> "opcode_34"
    [] v = 35 -> "opcode_35"

\* C4: for a supported version the lookup returns the table of exactly that
\* version, for 2.6 and 2.7 the PyPy table under the alternate runtime and
\* the standard one otherwise, and the table returned for a pair that has
\* one belongs to no other such pair.
C4_OwnTable ==
  LookedUp /\ version \in {23, 24, 25, 26, 27, 30, 31, 32, 33, 34, 35} =>
    /\ error # "TypeError"
    /\ opc = OwnTable(version, IS_PYPY)
    /\ <<version, IS_PYPY>> \in RegisteredPairs =>
         \A p \in RegisteredPairs :
           OwnTable(p[1], p[2]) = opc => p = <<version, IS_PYPY>>

\* The PyPy table has been selected for 2.7.
C4_Witness ==
  LookedUp /\ version = 27 /\ IS_PYPY /\ opc = "opcode_pypy27"

\* C5: the walk always comes to an end, also when a code object is reached
\* through several occurrences: every call of disco returns or raises.
C5_Terminates == <>(pc \in {"done", "failed"})

\* A walk has come to its end after it visited a code object twice and a
\* code object that two different code objects refer to.
C5_Witness ==
  /\ pc = "done"
  /\ \E d \in CodeIds : Count(visited, d) >= 2
  /\ \E d, e, f \in CodeIds :
       /\ e # f
       /\ Count(code[e].instrs, d) > 0 /\ Count(code[f].instrs, d) > 0
       /\ Count(visited, e) > 0 /\ Count(visited, f) > 0

\* The output stream of the session and everything written in the session.
AllText == streams["sink"] \o streams["stdout"]

\* The rendering of the i-th visited code object: the root's header only
\* when the root has a file name, every other object's header always.
Rendering(i) ==
  (IF i = 1 THEN RootHeader ELSE <<CodeInfo(visited[i])>>)
    \o <<DisText(visited[i])>>

\* The renderings of the visits i.., a blank line between two of them.
RECURSIVE RenderingsFrom(_)
RenderingsFrom(i) ==
  IF i > Len(visited) THEN <<>>
  ELSE IF i = Len(visited) THEN Rendering(i)
  ELSE Rendering(i) \o <<Blank>> \o RenderingsFrom(i + 1)

\* C6: the output stream receives the program header and then the rendering
\* of each visited code object, in the order of the visits, a blank line
\* between consecutive renderings, and nothing else.
C6_SinkOrder ==
  pc = "done" => Sink = ProgramHeader \o RenderingsFrom(1)

\* C7: the root's header is written once when the root has a file name and
\* not at all when it has none, whatever the root's name.
C7_RootHeaderIffFilename ==
  pc = "done" =>
    Count(AllText, CodeInfo(co)) =
      (IF code[co].co_filename # "" THEN 1 ELSE 0)

\* The place in a text of its n-th listing (0 when it has fewer).
RECURSIVE DisPlace(_, _, _)
DisPlace(text, n, from) ==
  IF from > Len(text) THEN 0
  ELSE IF text[from].kind = "dis"
       THEN (IF n = 1 THEN from ELSE DisPlace(text, n - 1, from + 1))
       ELSE DisPlace(text, n, from + 1)

\* C8: every visit of a code object other than the root writes the header
\* of that object right before its listing, whatever its name or file name.
C8_NonRootHeader ==
  pc = "done" =>
    \A i \in 2..Len(visited) :
      LET text == streams[real_out]
          at == DisPlace(text, i, 1)
      IN /\ at > 1
         /\ text[at] = DisText(visited[i])
         /\ text[at - 1] = CodeInfo(visited[i])

\* What disco_loop has written for the visits i..n.
RECURSIVE WrittenFor(_, _)
WrittenFor(i, n) ==
  IF i > n THEN <<>>
  ELSE Header(visited[i]) \o <<DisText(visited[i])>> \o WrittenFor(i + 1, n)

Listings(text) == SelectSeq(text, LAMBDA t : t.kind = "dis")

C10_ReadOnly ==
  [][/\ UNCHANGED <<code, version, timestamp, co, out, IS_PYPY, debug>>
     /\ opc # "none" => opc' = opc
     /\ real_out # "none" => real_out' = real_out]_vars

\* A session has visited several code objects that have instructions.
C10_Witness ==
  /\ pc = "done"
  /\ opc # "none"
  /\ Len(visited) >= 3
  /\ \A i \in 1..2 : code[visited[i]].instrs # <<>>

\* The listings of the visits 1..n.
ListingsOf(n) == [i \in 1..n |-> DisText(visited[i])]

\* C14: the walk is breadth-first: the visits come in non-decreasing depth
\* below the root, nothing that waits in the queue is less deep than a
\* visit already made, every visit but the root's is of an operand of an
\* earlier visit one level up, and the listings are written in the order
\* of the visits, so an object's listing precedes those of the objects it
\* refers to.
C14_BreadthFirst ==
  LET n == Len(visited)
  IN /\ Len(hist.v) = n /\ Len(hist.q) = Len(queue)
     /\ \A i \in 1..(n - 1) : hist.v[i].depth <= hist.v[i + 1].depth
     /\ \A i \in 1..n : \A j \in 1..Len(queue) :
          hist.v[i].depth <= hist.q[j].depth
     /\ \A i \in 1..n :
          IF i = 1 THEN hist.v[i].depth = 0 /\ visited[i] = co
          ELSE /\ hist.v[i].parent \in 1..(i - 1)
               /\ hist.v[i].depth = hist.v[hist.v[i].parent].depth + 1
               /\ Count(code[visited[hist.v[i].parent]].instrs, visited[i]) > 0
     /\ \/ Listings(AllText) = ListingsOf(n)
        \/ n > 0 /\ pc = "failed" /\ Listings(AllText) = ListingsOf(n - 1)

\* A walk of three levels: the object of the second level that the first
\* visited child refers to is visited after the second child.
C14_Witness ==
  /\ pc = "done"
  /\ Len(visited) = 4
  /\ hist.v[3].depth = 1 /\ hist.v[3].parent = 1
  /\ hist.v[4].depth = 2 /\ hist.v[4].parent = 2

\* disco has written the lines about the program.
WroteHeader == pc # "disco" /\ out # "None" /\ ~(debug /\ ~iscode(co))

TimestampLines(text) == SelectSeq(text, LAMBDA t : t.kind = "timestamp")

\* C15 as stated: the timestamp line is written exactly when the timestamp
\* is not 0, after the line of the version and before any code object.
C15_TimestampIffNonzero ==
  WroteHeader =>
    /\ TimestampLines(AllText) =
         (IF timestamp # 0 THEN <<TimestampLine(timestamp)>> ELSE <<>>)
    /\ timestamp # 0 =>
         /\ Len(Sink) >= 2
         /\ Sink[1] = BytecodeLine(version)
         /\ Sink[2] = TimestampLine(timestamp)

\* C15 as amended: the timestamp line is written exactly when the timestamp
\* is greater than 0 (0 and negative values write none), after the line of
\* the version and before any code object.
C15_TimestampIffPositive ==
  WroteHeader =>
    /\ TimestampLines(AllText) =
         (IF timestamp > 0 THEN <<TimestampLine(timestamp)>> ELSE <<>>)
    /\ timestamp > 0 =>
         /\ Len(Sink) >= 2
         /\ Sink[1] = BytecodeLine(version)
         /\ Sink[2] = TimestampLine(timestamp)

\* A session with a timestamp has written its listing.
C15_Witness ==
  /\ pc = "done"
  /\ timestamp = 1
  /\ Sink[2] = TimestampLine(1)
  /\ Len(Listings(Sink)) >= 1

\* C17: the queue holds code objects only: a root that is no code object
\* does not reach the queue, and of the operands of a visited object only
\* the code objects are appended, so nothing else is ever visited.
C17_QueueHoldsCode ==
  /\ \A i \in 1..Len(queue) : queue[i] \in CodeIds
  /\ \A i \in 1..Len(visited) : visited[i] \in CodeIds
  /\ co \notin CodeIds =>
       queue = <<>> /\ visited = <<>> /\ pc \in {"disco", "failed"}
  /\ pc = "disco_loop" /\ visited = <<>> => queue = <<co>>
  /\ Len(visited) = 1 /\ pc = "disco_loop" =>
       Len(queue) = Cardinality({i \in 1..Len(code[co].instrs) :
                                  code[co].instrs[i] \in CodeIds})

\* The root, which has an operand that is no code object and one that is,
\* has been visited and only the code object waits in the queue.
C17_Witness ==
  /\ pc = "disco_loop"
  /\ Len(visited) = 1
  /\ Count(code[co].instrs, 0) > 0
  /\ Len(queue) = 1
  /\ Len(code[co].instrs) >= 2

\* C18: everything a session writes goes to the stream passed as out:
\* with a stream of its own nothing is written to the standard output.
C18_OneSink ==
  out \in {"sink", "falsy_sink"} => streams["stdout"] = <<>>

\* What disco_loop writes for the visits i..n of the list vis.
RECURSIVE WrittenOf(_, _, _)
WrittenOf(vis, i, n) ==
  IF i > n THEN <<>>
  ELSE Header(vis[i]) \o <<DisText(vis[i])>> \o WrittenOf(vis, i + 1, n)

\* What a call running alone has written to its own stream when it has
\* made the visits vis: the header, and the headers and listings of the
\* visits when they go to that stream (the last visit's header only, when
\* the decoder rejected it).
AloneText(header, vis, failed, listed) ==
  header \o
  (IF ~listed \/ vis = <<>> THEN <<>>
   ELSE IF failed
        THEN WrittenOf(vis, 1, Len(vis) - 1) \o Header(vis[Len(vis)])
        ELSE WrittenOf(vis, 1, Len(vis)))

\* C16: two calls of disco that run at the same time, each with its own
\* root and its own stream, do not interfere: the queue of each holds only
\* occurrences of its own walk, in the order of that walk; the stream of
\* each holds at every moment exactly what that call alone would have
\* written to it; and each keeps the table of its own version.
C16_SessionsIndependent ==
  /\ pc # "disco" =>
       /\ IsPrefix(visited \o queue, VisitsFrom(<<co>>))
       /\ pc = "done" => visited = VisitsFrom(<<co>>)
       /\ streams["sink"] =
            AloneText(ProgramHeader \o RootHeader, visited,
                      error = "DecodeError", real_out = "sink")
       /\ opc = OwnTable(version, IS_PYPY)
  /\ pc = "disco" => streams["sink"] = <<>>
  /\ peer.pc # "disco" =>
       /\ IsPrefix(peer.visited \o peer.queue, VisitsFrom(<<peer.co>>))
       /\ peer.pc = "done" => peer.visited = VisitsFrom(<<peer.co>>)
       /\ streams["peer_sink"] =
            AloneText(PeerProgramHeader \o PeerRootHeader, peer.visited,
                      peer.error = "DecodeError", peer.real_out = "peer_sink")
       /\ peer.opc = OwnTable(peer.version, IS_PYPY)
  /\ peer.pc = "disco" => streams["peer_sink"] = <<>>

\* Both calls have finished walks of several code objects, one of them
\* visited by both, and their turns have alternated: on the shared standard
\* output the first listing of the second call stands between two listings
\* of the first.
C16_Witness ==
  /\ pc = "done" /\ peer.pc = "done"
  /\ Len(visited) >= 2 /\ Len(peer.visited) >= 2
  /\ \E i \in 1..Len(visited) : Count(peer.visited, visited[i]) > 0
  /\ out = "falsy_sink" /\ peer.out = "falsy_sink"
  /\ Listings(streams["stdout"])[1] = DisText(co)
  /\ Listings(streams["stdout"])[2] = DisText(peer.co)
  /\ Count(visited, peer.co) = 0

----------------------------------------------------------------------------
\* Properties of the instruction decoder

IsExt(ins) == ins.mnemonic = "EXTENDED_ARG"

\* The two-byte little-endian payload of the instruction at offset o.
Payload(o) == dec.buf[o + 2] + 256 * dec.buf[o + 3]

\* The offset right after the i-th decoded instruction.
After(i) ==
  IF i < Len(dec.instrs) THEN dec.instrs[i + 1].offset ELSE dec.offset

KindOf(ins) == OpcodeTable[dec.buf[ins.offset + 1]].operandKind

\* C11: with a shift width of 16, two extended-argument opcodes followed
\* by one argument-taking opcode give that opcode the single operand
\* (ext1 << 32) | (ext2 << 16) | final; an opcode that follows no
\* extended argument has its own payload as operand, whatever came earlier;
\* and the pending extended argument is zero right after every instruction
\* that is no extended argument, whether or not it used it.
C11_ExtendedArg ==
  LET ins == dec.instrs
      n == Len(ins)
  IN /\ \A i \in 1..(n - 2) :
          ( /\ IsExt(ins[i]) /\ IsExt(ins[i + 1])
            /\ i > 1 => ~IsExt(ins[i - 1])
            /\ ins[i + 2].hasRaw /\ ~IsExt(ins[i + 2]) )
          => ins[i + 2].raw =
               Norm(<<Payload(ins[i].offset), Payload(ins[i + 1].offset),
                      Payload(ins[i + 2].offset)>>)
     /\ \A i \in 1..n :
          (ins[i].hasRaw /\ (i > 1 => ~IsExt(ins[i - 1])))
          => ins[i].raw = Norm(<<Payload(ins[i].offset)>>)
     /\ (n > 0 /\ ~IsExt(ins[n])) => dec.ext = <<>>

\* EXTENDED_ARG 1, EXTENDED_ARG 2, CALL_FUNCTION 3 have just been decoded:
\* the operand is 1 * 2^32 + 2 * 2^16 + 3 and nothing is pending.
C11_Witness ==
  LET ins == dec.instrs
      n == Len(ins)
  IN /\ n >= 3
     /\ IsExt(ins[n - 2]) /\ IsExt(ins[n - 1])
     /\ n > 3 => ~IsExt(ins[n - 3])
     /\ ins[n].mnemonic = "CALL_FUNCTION"
     /\ ins[n].raw = <<1, 2, 3>>
     /\ dec.ext = <<>>

Size(ins) == 1 + (IF ins.hasRaw THEN ArgWidth ELSE 0)

RECURSIVE SumSizes(_)
SumSizes(ins) == IF ins = <<>> THEN 0 ELSE Size(Head(ins)) + SumSizes(Tail(ins))

\* The buffer ends after the opcode at offset o, which takes an operand,
\* and before the end of that operand.
TruncatedAt(o) ==
  /\ o < Len(dec.buf)
  /\ dec.buf[o + 1] \in DOMAIN OpcodeTable
  /\ OpcodeTable[dec.buf[o + 1]].hasArgument
  /\ Len(dec.buf) - (o + 1) < ArgWidth

\* C13: when the buffer ends inside the operand of an opcode, the run ends
\* with the truncated-instruction error and without an instruction for that
\* opcode; the instructions decoded cover the buffer up to the current
\* offset, byte for byte, and a run that reports success has covered all of
\* it, so no opcode is dropped silently.
C13_TruncatedSurfaced ==
  /\ SumSizes(dec.instrs) = dec.offset
  /\ dec.pc = "done" => dec.error = "none" /\ dec.offset = Len(dec.buf)
  /\ TruncatedAt(dec.offset) =>
       /\ \A i \in 1..Len(dec.instrs) : dec.instrs[i].offset < dec.offset
       /\ dec.pc # "decode" =>
            dec.pc = "failed" /\ dec.error = "TruncatedInstructionError"
  /\ dec.error = "TruncatedInstructionError" =>
       dec.pc = "failed" /\ TruncatedAt(dec.offset)

\* After some instructions the buffer ended one byte into a two-byte
\* operand, and the run has failed.
C13_Witness ==
  /\ dec.pc = "failed"
  /\ dec.error = "TruncatedInstructionError"
  /\ Len(dec.instrs) > 0
  /\ Len(dec.buf) - dec.offset = 2

====
